---- MODULE Spec2Model ----
(***************************************************************************)
(* Model of the tinkoff-invest-tg-bot statistics calculator: the          *)
(* InvestCalculator class of common.py and of main.py (two revisions of   *)
(* the same class) and the webhook handler of main.py.                    *)
(*                                                                         *)
(* Python values are modelled as follows.                                  *)
(*   None            the empty tuple <<>>; a present optional value x is   *)
(*                   the one-element tuple <<x>>                           *)
(*   dict            a sequence of <<key, value>> pairs in insertion order *)
(*   float           an integer kept to MantissaBits significant bits:     *)
(*                   every float addition rounds to nearest, ties to even  *)
(*   str             a TLA+ string; f-strings are concatenations           *)
(***************************************************************************)
EXTENDS Integers, Sequences, FiniteSets, TLC

VARIABLES broker, calculator, api_calls, returned, requests, sent

vars == <<broker, calculator, api_calls, returned, requests, sent>>

(***************************************************************************)
(* Bounds of the model.                                                    *)
(***************************************************************************)
MantissaBits == 2
MaxOperations == 3
MaxApiCalls == 3

None == <<>>
Some(x) == <<x>>

\* The values of the profit dict are floats in main.py and dicts in common.py
\* (format_dict_with_emoji tells them apart with isinstance): they carry
\* their Python type.
PyFloat(x) == [type |-> "float", val |-> x]
PyDict(d) == [type |-> "dict", val |-> d]

(***************************************************************************)
(* Python float arithmetic, scaled down to MantissaBits bits of mantissa.  *)
(***************************************************************************)
RECURSIVE Pow2(_)
Pow2(n) == IF n = 0 THEN 1 ELSE 2 * Pow2(n - 1)

Abs(x) == IF x < 0 THEN -x ELSE x

RECURSIVE FloatExponent(_, _)
FloatExponent(a, e) ==
    IF a < Pow2(MantissaBits + e) THEN e ELSE FloatExponent(a, e + 1)

\* The float nearest to the real number x (round half to even).
RoundFloat(x) ==
    LET a == Abs(x)
        u == Pow2(FloatExponent(a, 0))
        q == a \div u
        r == a % u
        m == IF 2 * r > u \/ (2 * r = u /\ q % 2 = 1) THEN q + 1 ELSE q
    IN  IF x < 0 THEN -(m * u) ELSE m * u

IsFloat(x) == RoundFloat(x) = x

float_add(a, b) == RoundFloat(a + b)

float_mul(a, b) == RoundFloat(a * b)

\* str() of a float whose value is a whole number, as Python prints it.
float_str(x) == ToString(x) \o ".0"

(***************************************************************************)
(* Python dict and collections.defaultdict(float).                         *)
(***************************************************************************)
DictKeys(d) == {d[i][1] : i \in 1..Len(d)}

DictHas(d, k) == k \in DictKeys(d)

DictIndex(d, k) == CHOOSE i \in 1..Len(d) : d[i][1] = k

\* d.get(k, default)
DictGet(d, k, default) == IF DictHas(d, k) THEN d[DictIndex(d, k)][2] ELSE default

\* d[k] = v
DictSet(d, k, v) ==
    IF DictHas(d, k)
    THEN [d EXCEPT ![DictIndex(d, k)] = <<k, v>>]
    ELSE Append(d, <<k, v>>)

\* d[k] += v on a defaultdict(float): a missing key starts from 0.0
DictAdd(d, k, v) == DictSet(d, k, float_add(DictGet(d, k, 0), v))

\* d[k] read on a defaultdict(float): a missing key is inserted with 0.0
DictTouch(d, k) == IF DictHas(d, k) THEN d ELSE Append(d, <<k, 0>>)

(***************************************************************************)
(* Enumerations of the brokerage SDK that the code names.                  *)
(***************************************************************************)
DEFAULT_CURRENCY == "RUB"

BUY == "Buy"
SELL == "Sell"
BUYCARD == "BuyCard"
PAYIN == "PayIn"
PAYOUT == "PayOut"
DIVIDEND == "Dividend"
COUPON == "Coupon"
BROKERCOMMISSION == "BrokerCommission"
SERVICECOMMISSION == "ServiceCommission"
TAXDIVIDEND == "TaxDividend"
TAXCOUPON == "TaxCoupon"
CURRENCY == "Currency"
STOCK == "Stock"

commission_operations_types ==
    {BROKERCOMMISSION, SERVICECOMMISSION, TAXDIVIDEND, TAXCOUPON}

(***************************************************************************)
(* InvestCalculator: the aggregation primitive and the statistics that are *)
(* the same in common.py and main.py.                                      *)
(***************************************************************************)
RECURSIVE total_payment_loop(_, _)
total_payment_loop(ops, result) ==
    IF ops = <<>> THEN result
    ELSE total_payment_loop(Tail(ops),
                            DictAdd(result, Head(ops).currency, Head(ops).payment))

get_total_payment_by_filter(func(_), operations) ==
    total_payment_loop(SelectSeq(operations, func), <<>>)

get_commissions(operations) ==
    get_total_payment_by_filter(
        LAMBDA o : o.operation_type \in commission_operations_types, operations)

get_service_commission(operations) ==
    get_total_payment_by_filter(
        LAMBDA o : o.operation_type = SERVICECOMMISSION, operations)

get_pay_in(operations) ==
    get_total_payment_by_filter(LAMBDA o : o.operation_type = PAYIN, operations)

get_pay_out(operations) ==
    get_total_payment_by_filter(LAMBDA o : o.operation_type = PAYOUT, operations)

\* get_pay_total with PAYOUT left out of its tuple of types.
get_pay_total_without_payout(operations) ==
    get_total_payment_by_filter(LAMBDA o : o.operation_type \in {PAYIN}, operations)

get_pay_total(operations) ==
    get_total_payment_by_filter(
        LAMBDA o : o.operation_type \in {PAYOUT, PAYIN}, operations)

get_balance(operations) ==
    get_total_payment_by_filter(LAMBDA o : o.currency = DEFAULT_CURRENCY, operations)


\* main.py: restricted to the default currency.
main_get_total_operations_balance(operations) ==
    get_total_payment_by_filter(
        LAMBDA o : o.currency = DEFAULT_CURRENCY
                   /\ o.operation_type \in {BUY, SELL, BUYCARD}, operations)

\* common.py: every currency.
common_get_total_operations_balance(operations) ==
    get_total_payment_by_filter(
        LAMBDA o : o.operation_type \in {BUY, SELL, BUYCARD}, operations)

(***************************************************************************)
(* The market-search collaborator: figi -> ticker and display name.        *)
(***************************************************************************)
market_search_by_figi_get(figi) ==
    CASE figi = "FIGI1" -> [ticker |-> "AAA", name |-> "Alpha"]
      [] figi = "FIGI2" -> [ticker |-> "BBB", name |-> "Beta"]
      [] OTHER -> [ticker |-> "USD", name |-> "Dollar"]

get_name_by_figi(figi) ==
    LET position == market_search_by_figi_get(figi)
    IN  position.ticker \o " - " \o position.name \o " (" \o figi \o ")"

(***************************************************************************)
(* get_profit of main.py.  The result is [raised, value]: raised is TRUE   *)
(* when the call ends in an exception (AttributeError on a None            *)
(* commission), and value is the returned dict otherwise.                  *)
(***************************************************************************)
main_profit_filter(o) ==
    /\ o.currency = DEFAULT_CURRENCY
    /\ o.operation_type \in {BUY, SELL, BUYCARD}
    /\ o.payment # 0

RECURSIVE main_figi_total_loop(_, _)
main_figi_total_loop(ops, figi_total) ==
    IF ops = <<>> THEN figi_total
    ELSE main_figi_total_loop(
             Tail(ops),
             DictAdd(figi_total, Head(ops).figi,
                     float_add(Head(ops).payment, Head(ops).commission[1].value)))

\* The dict comprehension keyed by ticker instead of figi.
main_ticker_in_portfolio(positions) == {positions[i].ticker : i \in 1..Len(positions)}

\* The keys of {f.figi: f.ticker for f in positions}.
main_figi_in_portfolio(positions) == {positions[i].figi : i \in 1..Len(positions)}

RECURSIVE main_profit_entries(_, _, _)
main_profit_entries(figi_total, held, profit) ==
    IF figi_total = <<>> THEN profit
    ELSE LET figi == Head(figi_total)[1]
             p_sum == Head(figi_total)[2]
         IN  main_profit_entries(
                 Tail(figi_total), held,
                 IF figi \notin held
                 THEN DictSet(profit, get_name_by_figi(figi), PyFloat(p_sum))
                 ELSE profit)

main_dividend(operations) ==
    DictGet(get_total_payment_by_filter(
                LAMBDA o : o.operation_type \in {DIVIDEND, TAXDIVIDEND}
                           /\ o.currency = DEFAULT_CURRENCY, operations),
            DEFAULT_CURRENCY, 0)

main_coupon(operations) ==
    DictGet(get_total_payment_by_filter(
                LAMBDA o : o.operation_type \in {COUPON, TAXCOUPON}
                           /\ o.currency = DEFAULT_CURRENCY, operations),
            DEFAULT_CURRENCY, 0)

main_get_profit(operations, positions) ==
    LET profit0 == << <<"dividend", PyFloat(main_dividend(operations))>>,
                      <<"coupon", PyFloat(main_coupon(operations))>> >>
        traded == SelectSeq(operations, main_profit_filter)
    IN  IF \E i \in 1..Len(traded) : traded[i].commission = None
        THEN [raised |-> TRUE, value |-> <<>>]
        ELSE [raised |-> FALSE,
              value |-> main_profit_entries(main_figi_total_loop(traded, <<>>),
                                            main_figi_in_portfolio(positions),
                                            profit0)]

(***************************************************************************)
(* get_profit of common.py: per-currency sums, held positions included at  *)
(* their current value.  It never raises on a None commission.             *)
(***************************************************************************)
common_profit_filter(o) ==
    /\ o.operation_type \in {BUY, SELL, BUYCARD}
    /\ o.instrument_type # CURRENCY

\* getattr(operation.commission, 'value', 0)
commission_value(o) == IF o.commission = None THEN 0 ELSE o.commission[1].value

RECURSIVE common_figi_total_loop(_, _)
common_figi_total_loop(ops, figi_total) ==
    IF ops = <<>> THEN figi_total
    ELSE LET o == Head(ops)
             inner == DictGet(figi_total, o.figi, <<>>)
         IN  common_figi_total_loop(
                 Tail(ops),
                 DictSet(figi_total, o.figi,
                         DictAdd(inner, o.currency,
                                 float_add(o.payment, commission_value(o)))))

position_value(f) ==
    float_add(float_mul(f.balance, f.average_position_price.value),
              f.expected_yield.value)

\* {f.figi: (ticker, value, currency) for f in positions}: a later position
\* with the same figi replaces an earlier one.
RECURSIVE common_figi_in_portfolio(_, _)
common_figi_in_portfolio(positions, d) ==
    IF positions = <<>> THEN d
    ELSE LET f == Head(positions)
         IN  common_figi_in_portfolio(
                 Tail(positions),
                 DictSet(d, f.figi, <<f.ticker, position_value(f),
                                      f.average_position_price.currency>>))

RECURSIVE common_profit_currencies(_, _, _, _)
common_profit_currencies(figi, currency_sum, portfolio, profit) ==
    IF currency_sum = <<>> THEN profit
    ELSE LET currency == Head(currency_sum)[1]
             p_sum == Head(currency_sum)[2]
             next ==
                 IF ~DictHas(portfolio, figi)
                 THEN DictSet(profit, get_name_by_figi(figi),
                              PyDict(<< <<currency, p_sum>> >>))
                 ELSE IF DictGet(portfolio, figi, <<>>)[3] = currency
                 THEN DictSet(profit, get_name_by_figi(figi),
                              PyDict(<< <<currency,
                                          float_add(p_sum,
                                                    DictGet(portfolio, figi, <<>>)[2])>> >>))
                 ELSE profit
         IN  common_profit_currencies(figi, Tail(currency_sum), portfolio, next)

RECURSIVE common_profit_entries(_, _, _)
common_profit_entries(figi_total, portfolio, profit) ==
    IF figi_total = <<>> THEN profit
    ELSE common_profit_entries(
             Tail(figi_total), portfolio,
             common_profit_currencies(Head(figi_total)[1], Head(figi_total)[2],
                                      portfolio, profit))

\* The dividend totals with TAXDIVIDEND left out of the tuple of types.
common_dividend_without_tax(operations) ==
    get_total_payment_by_filter(
        LAMBDA o : o.operation_type \in {DIVIDEND}, operations)

common_dividend(operations) ==
    get_total_payment_by_filter(
        LAMBDA o : o.operation_type \in {DIVIDEND, TAXDIVIDEND}, operations)

common_coupon(operations) ==
    get_total_payment_by_filter(
        LAMBDA o : o.operation_type \in {COUPON, TAXCOUPON}, operations)

common_get_profit(operations, positions) ==
    LET profit0 == << <<"dividend", PyDict(common_dividend(operations))>>,
                      <<"coupon", PyDict(common_coupon(operations))>> >>
        traded == SelectSeq(operations, common_profit_filter)
    IN  [raised |-> FALSE,
         value |-> common_profit_entries(common_figi_total_loop(traded, <<>>),
                                         common_figi_in_portfolio(positions, <<>>),
                                         profit0)]


(***************************************************************************)
(* Rendering.                                                              *)
(***************************************************************************)
RECURSIVE join(_, _)
join(sep, parts) ==
    IF parts = <<>> THEN ""
    ELSE IF Len(parts) = 1 THEN parts[1]
    ELSE parts[1] \o sep \o join(sep, Tail(parts))

\* '; '.join(f'{k}: {v}' for k, v in data.items()), the values being floats
format_dict(data) ==
    join("; ", [i \in 1..Len(data) |-> data[i][1] \o ": " \o float_str(data[i][2])])

\* round(amount, 2): the amounts of the model are whole numbers, which
\* rounding to two decimals leaves as they are.
round2(amount) == amount

\* The check mark and the cross of the source are written (+) and (-).
amount_emoji(amount) ==
    float_str(round2(amount)) \o (IF amount >= 0 THEN "(+)" ELSE "(-)")

\* format_dict_with_emoji on a defaultdict(float): every value is a float
RECURSIVE format_dict_with_emoji(_)
format_dict_with_emoji(data) ==
    IF data = <<>> THEN ""
    ELSE Head(data)[1] \o ": " \o amount_emoji(Head(data)[2]) \o "; "
         \o format_dict_with_emoji(Tail(data))

\* format_dict_with_emoji on the profit dict: a dict value recurses, a float
\* value is rendered, any other value is skipped
RECURSIVE format_profit_with_emoji(_)
format_profit_with_emoji(data) ==
    IF data = <<>> THEN ""
    ELSE LET name == Head(data)[1]
             value == Head(data)[2]
         IN  (IF value.type = "dict"
              THEN name \o ": " \o format_dict_with_emoji(value.val)
              ELSE IF value.type = "float"
              THEN name \o ": " \o amount_emoji(value.val) \o "; "
              ELSE "")
             \o format_profit_with_emoji(Tail(data))

\* format_dict on the profit dict of main.py, whose values are floats
format_profit(data) ==
    join("; ", [i \in 1..Len(data) |->
                    data[i][1] \o ": " \o float_str(data[i][2].val)])

\* sum(profit.values()): Python's sum starts from 0 and adds left to right.
RECURSIVE py_sum(_, _)
py_sum(values, acc) ==
    IF values = <<>> THEN acc
    ELSE py_sum(Tail(values), float_add(acc, Head(values)[2].val))

(***************************************************************************)
(* get_statistics_str of main.py.  The value is the message as the         *)
(* sequence of its lines (the text between the "\n" separators).           *)
(***************************************************************************)
main_get_statistics_str(operations, positions) ==
    LET got == main_get_profit(operations, positions)
        profit == got.value
    IN  IF got.raised THEN [raised |-> TRUE, value |-> <<>>]
        ELSE [raised |-> FALSE,
              value |-> <<
                "Commissions and Taxes -> " \o format_dict(get_commissions(operations)),
                "Pay In -> " \o format_dict(get_pay_in(operations)),
                "Pay Out " \o format_dict(get_pay_out(operations)),
                "Pay Total -> " \o format_dict(get_pay_total(operations)),
                "Operations -> "
                    \o format_dict(main_get_total_operations_balance(operations)),
                "Total Profit -> " \o float_str(py_sum(profit, 0)),
                "Detailed Profit -> " \o format_profit(profit) >>]

(***************************************************************************)
(* get_statistics and get_statistics_str of common.py.                     *)
(***************************************************************************)
RECURSIVE common_total_inner(_, _)
common_total_inner(cur_val, total_profit) ==
    IF cur_val = <<>> THEN total_profit
    ELSE common_total_inner(Tail(cur_val),
                            DictAdd(total_profit, Head(cur_val)[1], Head(cur_val)[2]))

RECURSIVE common_total_outer(_, _)
common_total_outer(profit, total_profit) ==
    IF profit = <<>> THEN total_profit
    ELSE common_total_outer(Tail(profit),
                            common_total_inner(Head(profit)[2].val, total_profit))

\* for currency in total_profit.keys():
\*     total_profit[currency] += service_comission[currency]
\* i is the position of the key reached; the read of service_comission, a
\* defaultdict, inserts a missing currency there.
RECURSIVE common_add_service(_, _, _)
common_add_service(i, total_profit, service_comission) ==
    IF i > Len(total_profit)
    THEN [total_profit |-> total_profit, service_comission |-> service_comission]
    ELSE LET currency == total_profit[i][1]
             touched == DictTouch(service_comission, currency)
         IN  common_add_service(
                 i + 1,
                 DictAdd(total_profit, currency, DictGet(touched, currency, 0)),
                 touched)

common_total_profit(operations, profit) ==
    common_add_service(1, common_total_outer(profit, <<>>),
                       get_service_commission(operations))

common_get_statistics(operations, positions) ==
    LET profit == common_get_profit(operations, positions).value
        totals == common_total_profit(operations, profit)
    IN  << <<"Commissions and Taxes", format_dict(get_commissions(operations))>>,
           <<"Service commissions", format_dict(totals.service_comission)>>,
           <<"Pay In", format_dict(get_pay_in(operations))>>,
           <<"Pay Out", format_dict(get_pay_out(operations))>>,
           <<"Pay Total", format_dict(get_pay_total(operations))>>,
           <<"Operations",
             format_dict(common_get_total_operations_balance(operations))>>,
           <<"Balance", format_dict(get_balance(operations))>>,
           <<"Total Profit", format_dict_with_emoji(totals.total_profit)>>,
           <<"Detailed Profit", format_profit_with_emoji(profit)>> >>

common_get_statistics_str(operations, positions) ==
    LET statistics == common_get_statistics(operations, positions)
    IN  [raised |-> FALSE,
         value |-> [i \in 1..Len(statistics) |->
                        statistics[i][1] \o " -> " \o statistics[i][2]]]


(***************************************************************************)
(* The calculator instance and its memoized operations list.               *)
(***************************************************************************)
\* __init__: the date range only parameterises the brokerage call and is
\* left out; the account the brokerage holds stands for what it returns.
InvestCalculator(client) == [client |-> client, _operations |-> None]

\* openapi.api_client(token): a client session bound to the token
get_tinkoff_invest_client(token) == [token |-> token]

\* The operations property with `if not self._operations`: an empty list
\* counts as missing.
operations_refetch_empty(self, account) ==
    IF self._operations = None \/ self._operations = Some(<<>>)
    THEN IF account.valid
         THEN [self |-> [self EXCEPT !._operations = Some(account.operations)],
               raised |-> FALSE, value |-> account.operations,
               calls |-> <<[ok |-> TRUE, value |-> account.operations]>>]
         ELSE [self |-> self, raised |-> TRUE, value |-> <<>>,
               calls |-> <<[ok |-> FALSE, value |-> <<>>]>>]
    ELSE [self |-> self, raised |-> FALSE, value |-> self._operations[1],
          calls |-> <<>>]

\* The operations property.  get_all_operations raises when the brokerage
\* rejects the token; calls lists the get_all_operations calls made.
operations(self, account) ==
    IF self._operations = None
    THEN IF account.valid
         THEN [self |-> [self EXCEPT !._operations = Some(account.operations)],
               raised |-> FALSE, value |-> account.operations,
               calls |-> <<[ok |-> TRUE, value |-> account.operations]>>]
         ELSE [self |-> self, raised |-> TRUE, value |-> <<>>,
               calls |-> <<[ok |-> FALSE, value |-> <<>>]>>]
    ELSE [self |-> self, raised |-> FALSE, value |-> self._operations[1],
          calls |-> <<>>]

\* n reads of self.operations in a row, as one method call makes them; the
\* first read that raises ends the call.
RECURSIVE operations_times(_, _, _)
operations_times(n, self, account) ==
    LET first == operations(self, account)
    IN  IF n <= 1 \/ first.raised THEN first
        ELSE LET rest == operations_times(n - 1, first.self, account)
             IN  [rest EXCEPT !.calls = first.calls \o rest.calls]

Raised == [raised |-> TRUE, value |-> <<>>]
Returns(v) == [raised |-> FALSE, value |-> v]

MethodNames ==
    {"get_pay_in", "get_pay_out", "get_pay_total",
     "main.get_profit", "common.get_profit",
     "main.get_statistics_str", "common.get_statistics_str"}

(***************************************************************************)
(* The brokerage accounts the model draws its inputs from.                 *)
(***************************************************************************)
NumRequests == 2

Requests == 1..NumRequests

Tokens == {"tokA", "tokB", "expired"}

MaxPayment == Pow2(MantissaBits) - 1

NoFigi == ""

Operation(type, currency, payment, figi, instrument_type, commission) ==
    [operation_type |-> type, currency |-> currency, payment |-> payment,
     figi |-> figi, instrument_type |-> instrument_type,
     commission |-> commission]

MoneyAmount(currency, value) == [currency |-> currency, value |-> value]

Position(figi, ticker, balance, price, currency, yield) ==
    [figi |-> figi, ticker |-> ticker, balance |-> balance,
     average_position_price |-> MoneyAmount(currency, price),
     expected_yield |-> MoneyAmount(currency, yield)]

Account(valid, ops, positions) ==
    [valid |-> valid, operations |-> ops, positions |-> positions]

\* All sequences over S of length at most n.
SeqUpTo(S, n) == UNION {[1..k -> S] : k \in 0..n}

\* Deposits, withdrawals and one trade, in two currencies.
PayOperations ==
    {Operation(tp[1], c, tp[2], NoFigi, STOCK, None) :
        tp \in {<<PAYIN, 2>>, <<PAYIN, MaxPayment>>, <<PAYOUT, -MaxPayment>>,
                <<BUY, -MaxPayment>>},
        c \in {"RUB", "USD"}}

\* Trades, dividends, coupons and a service commission: one operation for
\* each case the profit filters tell apart.
CalcOperations ==
    {Operation(BUY, "RUB", -MaxPayment, "FIGI1", STOCK, Some(MoneyAmount("RUB", -1))),
     Operation(SELL, "RUB", MaxPayment, "FIGI1", STOCK, Some(MoneyAmount("RUB", -1))),
     Operation(BUY, "RUB", -2, "FIGI2", STOCK, None),
     Operation(BUYCARD, "RUB", -2, "FIGI2", STOCK, Some(MoneyAmount("RUB", 0))),
     Operation(SELL, "USD", MaxPayment, "FIGI2", STOCK, Some(MoneyAmount("USD", -1))),
     Operation(BUY, "RUB", -MaxPayment, "USD000UTSTOM", CURRENCY,
               Some(MoneyAmount("RUB", -1))),
     Operation(SELL, "RUB", 0, "FIGI1", STOCK, Some(MoneyAmount("RUB", -1))),
     Operation(DIVIDEND, "RUB", MaxPayment, "FIGI1", STOCK, None),
     Operation(TAXDIVIDEND, "USD", -1, "FIGI1", STOCK, None),
     Operation(COUPON, "RUB", 2, "FIGI2", "Bond", None),
     Operation(SERVICECOMMISSION, "RUB", -2, NoFigi, STOCK, None)}

CalcPortfolios ==
    {<<>>,
     <<Position("FIGI1", "AAA", 2, 1, "RUB", 1)>>,
     <<Position("FIGI2", "BBB", 1, 2, "USD", -1)>>}

\* What the brokerage may hold while one calculator instance lives.
CacheAccounts ==
    {Account(v, ops, <<>>) :
        v \in BOOLEAN,
        ops \in {<<>>,
                 <<Operation(PAYIN, "RUB", 2, NoFigi, STOCK, None)>>,
                 <<Operation(PAYIN, "RUB", 2, NoFigi, STOCK, None),
                   Operation(BUY, "RUB", -MaxPayment, "FIGI1", STOCK,
                             Some(MoneyAmount("RUB", -1)))>>}}

OtherAccounts ==
    [t \in Tokens \ {"tokA"} |->
        IF t = "tokB"
        THEN Account(TRUE, <<Operation(PAYIN, "USD", 2, NoFigi, STOCK, None)>>, <<>>)
        ELSE Account(FALSE, <<>>, <<>>)]

BrokerWith(account) ==
    [t \in Tokens |-> IF t = "tokA" THEN account ELSE OtherAccounts[t]]

NoRequest ==
    [method |-> "", chat_id |-> 0, token |-> "", pc |-> "none",
     text |-> None, response |-> None]

\* One calculator instance, built for the token tokA, and no webhook request.
InitInstance ==
    /\ calculator = [r \in Requests |->
                        IF r = 1 THEN Some(InvestCalculator(get_tinkoff_invest_client("tokA"))) ELSE None]
    /\ api_calls = [r \in Requests |-> <<>>]
    /\ returned = [m \in MethodNames \cup {"operations"} |-> None]
    /\ requests = [r \in Requests |-> NoRequest]
    /\ sent = <<>>

InitPay ==
    /\ InitInstance
    /\ \E ops \in SeqUpTo(PayOperations, MaxOperations) :
            broker = BrokerWith(Account(TRUE, ops, <<>>))

InitCalc ==
    /\ InitInstance
    /\ \E ops \in SeqUpTo(CalcOperations, MaxOperations), positions \in CalcPortfolios :
            broker = BrokerWith(Account(TRUE, ops, positions))

ReportOperations ==
    {o \in CalcOperations :
        \/ o.operation_type \in {SERVICECOMMISSION, DIVIDEND, TAXDIVIDEND}
        \/ o.operation_type \in {BUY, SELL} /\ o.payment # 0
                                            /\ o.instrument_type = STOCK}

InitReport ==
    /\ InitInstance
    /\ \E ops \in SeqUpTo(ReportOperations, MaxOperations),
          positions \in CalcPortfolios :
            broker = BrokerWith(Account(TRUE, ops, positions))

InitCache ==
    /\ InitInstance
    /\ \E account \in CacheAccounts : broker = BrokerWith(account)

(***************************************************************************)
(* A method call on the calculator instance.                               *)
(***************************************************************************)
\* n reads of self.operations by a method of the instance.
Read(n) ==
    operations_times(n, calculator[1][1], broker[calculator[1][1].client.token])

\* portfolio_get() of the instance's client; it raises on a rejected token.
Portfolio == broker[calculator[1][1].client.token]

CanRead(n) ==
    /\ calculator[1] # None
    /\ Len(api_calls[1]) + Len(Read(n).calls) <= MaxApiCalls

\* What the caller of method m gets, and the list its reads returned.
Record(m, read, result) ==
    [returned EXCEPT
        ![m] = Some(IF read.raised THEN Raised ELSE result),
        !["operations"] = IF read.raised THEN @ ELSE Some(read.value)]

GetPayIn ==
    /\ CanRead(1)
    /\ calculator' = [calculator EXCEPT ![1] = Some(Read(1).self)]
    /\ api_calls' = [api_calls EXCEPT ![1] = @ \o Read(1).calls]
    /\ returned' = Record("get_pay_in", Read(1),
                          Returns(get_pay_in(Read(1).value)))
    /\ UNCHANGED <<broker, requests, sent>>

GetPayOut ==
    /\ CanRead(1)
    /\ calculator' = [calculator EXCEPT ![1] = Some(Read(1).self)]
    /\ api_calls' = [api_calls EXCEPT ![1] = @ \o Read(1).calls]
    /\ returned' = Record("get_pay_out", Read(1),
                          Returns(get_pay_out(Read(1).value)))
    /\ UNCHANGED <<broker, requests, sent>>

GetPayTotal ==
    /\ CanRead(1)
    /\ calculator' = [calculator EXCEPT ![1] = Some(Read(1).self)]
    /\ api_calls' = [api_calls EXCEPT ![1] = @ \o Read(1).calls]
    /\ returned' = Record("get_pay_total", Read(1),
                          Returns(get_pay_total(Read(1).value)))
    /\ UNCHANGED <<broker, requests, sent>>

MainGetProfit ==
    /\ CanRead(3)
    /\ calculator' = [calculator EXCEPT ![1] = Some(Read(3).self)]
    /\ api_calls' = [api_calls EXCEPT ![1] = @ \o Read(3).calls]
    /\ returned' = Record("main.get_profit", Read(3),
                          IF Portfolio.valid
                             THEN main_get_profit(Read(3).value, Portfolio.positions)
                             ELSE Raised)
    /\ UNCHANGED <<broker, requests, sent>>

CommonGetProfit ==
    /\ CanRead(3)
    /\ calculator' = [calculator EXCEPT ![1] = Some(Read(3).self)]
    /\ api_calls' = [api_calls EXCEPT ![1] = @ \o Read(3).calls]
    /\ returned' = Record("common.get_profit", Read(3),
                          IF Portfolio.valid
                             THEN common_get_profit(Read(3).value, Portfolio.positions)
                             ELSE Raised)
    /\ UNCHANGED <<broker, requests, sent>>

MainGetStatisticsStr ==
    /\ CanRead(8)
    /\ calculator' = [calculator EXCEPT ![1] = Some(Read(8).self)]
    /\ api_calls' = [api_calls EXCEPT ![1] = @ \o Read(8).calls]
    /\ returned' = Record("main.get_statistics_str", Read(8),
                          IF Portfolio.valid
                             THEN main_get_statistics_str(Read(8).value, Portfolio.positions)
                             ELSE Raised)
    /\ UNCHANGED <<broker, requests, sent>>

CommonGetStatisticsStr ==
    /\ CanRead(10)
    /\ calculator' = [calculator EXCEPT ![1] = Some(Read(10).self)]
    /\ api_calls' = [api_calls EXCEPT ![1] = @ \o Read(10).calls]
    /\ returned' = Record("common.get_statistics_str", Read(10),
                          IF Portfolio.valid
                             THEN common_get_statistics_str(Read(10).value, Portfolio.positions)
                             ELSE Raised)
    /\ UNCHANGED <<broker, requests, sent>>

\* The brokerage account changes, or the token expires, between two calls.
BrokerChange ==
    /\ \E account \in CacheAccounts :
            /\ account # broker["tokA"]
            /\ broker' = BrokerWith(account)
    /\ UNCHANGED <<calculator, api_calls, returned, requests, sent>>

NextPay == GetPayIn \/ GetPayOut \/ GetPayTotal
SpecPay == InitPay /\ [][NextPay]_vars

NextProfit == MainGetProfit \/ CommonGetProfit
SpecProfit == InitCalc /\ [][NextProfit]_vars

NextReport == MainGetStatisticsStr \/ CommonGetStatisticsStr
SpecReport == InitReport /\ [][NextReport]_vars

NextCache == BrokerChange \/ GetPayTotal \/ MainGetProfit \/ MainGetStatisticsStr
SpecCache == InitCache /\ [][NextCache]_vars


(***************************************************************************)
(* The webhook handler of main.py.  A request moves through the handler in *)
(* steps that end at its blocking calls, so that requests served at the    *)
(* same time interleave there:                                             *)
(*   arrived -> built -> fetched -> computed -> returned, or -> raised     *)
(* when an exception leaves the handler.                                   *)
(***************************************************************************)
WebAccounts ==
    {Account(TRUE, <<Operation(PAYIN, "RUB", 2, NoFigi, STOCK, None)>>, <<>>),
     Account(TRUE, <<Operation(SELL, "RUB", MaxPayment, "FIGI1", STOCK,
                               Some(MoneyAmount("RUB", -1))),
                     Operation(SERVICECOMMISSION, "RUB", -2, NoFigi, STOCK, None)>>,
             <<>>),
     Account(TRUE, <<Operation(BUY, "RUB", -2, "FIGI2", STOCK, None)>>, <<>>)}

InitWeb ==
    /\ calculator = [r \in Requests |-> None]
    /\ api_calls = [r \in Requests |-> <<>>]
    /\ returned = [m \in MethodNames \cup {"operations"} |-> None]
    /\ sent = <<>>
    /\ \E account \in WebAccounts : broker = BrokerWith(account)
    /\ \E methods \in [Requests -> {"POST", "GET"}], tokens \in [Requests -> Tokens] :
            requests = [r \in Requests |->
                           [method |-> methods[r], chat_id |-> 100 + r,
                            token |-> tokens[r], pc |-> "arrived",
                            text |-> None, response |-> None]]

\* One calculator for the whole process instead of one per request.
SharedCalculator(r) == 1

\* `calculator` is a local variable of webhook: each call has its own.
CalculatorOf(r) == r

\* Lines 131-135: a request that is not a POST is acknowledged at once; a POST
\* is parsed and a client and a calculator are built for its token.
WebhookEnter(r) ==
    /\ requests[r].pc = "arrived"
    /\ IF requests[r].method = "POST"
       THEN /\ calculator' =
                  [calculator EXCEPT ![CalculatorOf(r)] =
                      Some(InvestCalculator(
                               get_tinkoff_invest_client(requests[r].token)))]
            /\ requests' = [requests EXCEPT ![r].pc = "built"]
       ELSE /\ requests' = [requests EXCEPT ![r].pc = "returned",
                                            ![r].response = Some("ok")]
            /\ UNCHANGED calculator
    /\ UNCHANGED <<broker, api_calls, returned, sent>>

\* Line 136, get_statistics_str -> get_profit: the first read of
\* self.operations.  An exception leaves the handler.
WebhookOperations(r) ==
    /\ requests[r].pc = "built"
    /\ LET c == CalculatorOf(r)
           self == calculator[c][1]
           read == operations(self, broker[self.client.token])
       IN  /\ Len(api_calls[c]) + Len(read.calls) <= MaxApiCalls
           /\ calculator' = [calculator EXCEPT ![c] = Some(read.self)]
           /\ api_calls' = [api_calls EXCEPT ![c] = @ \o read.calls]
           /\ requests' = [requests EXCEPT
                              ![r].pc = IF read.raised THEN "raised" ELSE "fetched"]
    /\ UNCHANGED <<broker, returned, sent>>

\* Line 136, the rest of get_statistics_str: the other reads of
\* self.operations, portfolio_get, the name lookups and the rendering.
WebhookStatistics(r) ==
    /\ requests[r].pc = "fetched"
    /\ LET c == CalculatorOf(r)
           self == calculator[c][1]
           account == broker[self.client.token]
           read == operations_times(7, self, account)
           result == IF read.raised \/ ~account.valid THEN Raised
                     ELSE main_get_statistics_str(read.value, account.positions)
       IN  /\ Len(api_calls[c]) + Len(read.calls) <= MaxApiCalls
           /\ calculator' = [calculator EXCEPT ![c] = Some(read.self)]
           /\ api_calls' = [api_calls EXCEPT ![c] = @ \o read.calls]
           /\ requests' = [requests EXCEPT
                              ![r].pc = IF result.raised THEN "raised" ELSE "computed",
                              ![r].text = IF result.raised THEN None
                                          ELSE Some(result.value)]
    /\ UNCHANGED <<broker, returned, sent>>

\* Lines 136-137: bot.sendMessage, then the acknowledgement.
WebhookSend(r) ==
    /\ requests[r].pc = "computed"
    /\ sent' = Append(sent, [chat_id |-> requests[r].chat_id,
                             text |-> requests[r].text[1], request |-> r])
    /\ requests' = [requests EXCEPT ![r].pc = "returned",
                                    ![r].response = Some("ok")]
    /\ UNCHANGED <<broker, calculator, api_calls, returned>>

Init == InitWeb

Next ==
    \E r \in Requests :
        \/ WebhookEnter(r)
        \/ WebhookOperations(r)
        \/ WebhookStatistics(r)
        \/ WebhookSend(r)

Spec == Init /\ [][Next]_vars


(***************************************************************************)
(* Properties.                                                             *)
(***************************************************************************)
\* The operations list the instance works on, once it is cached.
CachedOperations == calculator[1][1]._operations[1]

HasReturned(m) == returned[m] # None /\ ~returned[m][1].raised

ValueOf(m) == returned[m][1].value

StartsWith(str, prefix) ==
    Len(str) >= Len(prefix) /\ SubSeq(str, 1, Len(prefix)) = prefix

\* The float sum, left to right from 0.0, of a sequence of numbers.
RECURSIVE FloatSum(_, _)
FloatSum(values, acc) ==
    IF values = <<>> THEN acc ELSE FloatSum(Tail(values), float_add(acc, Head(values)))

\* The same sum in exact arithmetic.
RECURSIVE ExactSum(_)
ExactSum(values) == IF values = <<>> THEN 0 ELSE Head(values) + ExactSum(Tail(values))

\* No addition of the left-to-right sum rounds.
SumsExactly(values) ==
    \A k \in 0..Len(values) : IsFloat(ExactSum(SubSeq(values, 1, k)))

PaymentsOf(ops, types, currency) ==
    LET chosen == SelectSeq(ops, LAMBDA o : o.operation_type \in types
                                            /\ o.currency = currency)
    IN  [i \in 1..Len(chosen) |-> chosen[i].payment]

CurrenciesOf(ops, types) ==
    {ops[i].currency : i \in {j \in 1..Len(ops) : ops[j].operation_type \in types}}

(***************************************************************************)
(* C2.  The instance calls get_all_operations successfully at most once:   *)
(* the list that call returned is cached (an empty list too), no call      *)
(* follows it, and every read of `operations` returns the cached list.     *)
(***************************************************************************)
C2_FetchedOnce ==
    LET log == api_calls[1]
        fetched == SelectSeq(log, LAMBDA e : e.ok)
        cache == calculator[1][1]._operations
    IN  /\ Len(fetched) <= 1
        /\ (cache = None) <=> (fetched = <<>>)
        /\ cache # None =>
              /\ cache = Some(fetched[1].value)
              /\ log[Len(log)].ok
        /\ returned["operations"] = cache

\* An empty list was fetched and cached, the account has changed since, and
\* an aggregate, get_profit and get_statistics_str have all been called.
C2_Witness ==
    /\ calculator[1][1]._operations = Some(<<>>)
    /\ broker["tokA"].operations # <<>>
    /\ broker["tokA"].valid
    /\ returned["get_pay_total"] # None
    /\ returned["main.get_profit"] # None
    /\ returned["main.get_statistics_str"] # None
    /\ Len(api_calls[1]) = 1

(***************************************************************************)
(* C7 as stated.  For every currency c, get_pay_total()[c] equals          *)
(* get_pay_in()[c] + get_pay_out()[c], absent keys read as zero, and the   *)
(* keys of get_pay_total are those of get_pay_in and get_pay_out together. *)
(***************************************************************************)
C7_PayTotalIsInPlusOut ==
    (HasReturned("get_pay_in") /\ HasReturned("get_pay_out")
        /\ HasReturned("get_pay_total")) =>
        /\ DictKeys(ValueOf("get_pay_total"))
              = DictKeys(ValueOf("get_pay_in")) \cup DictKeys(ValueOf("get_pay_out"))
        /\ \A c \in {"RUB", "USD"} :
              DictGet(ValueOf("get_pay_total"), c, 0)
                 = float_add(DictGet(ValueOf("get_pay_in"), c, 0),
                             DictGet(ValueOf("get_pay_out"), c, 0))

(***************************************************************************)
(* C7 as amended.  The keys of get_pay_total are those of get_pay_in and   *)
(* get_pay_out together, and get_pay_total()[c] equals get_pay_in()[c] +   *)
(* get_pay_out()[c] for every currency c for which none of the float       *)
(* additions that accumulate the three sums rounds.                        *)
(***************************************************************************)
C7_NoRounding(c) ==
    /\ SumsExactly(PaymentsOf(CachedOperations, {PAYIN}, c))
    /\ SumsExactly(PaymentsOf(CachedOperations, {PAYOUT}, c))
    /\ SumsExactly(PaymentsOf(CachedOperations, {PAYIN, PAYOUT}, c))

C7_PayTotalIsInPlusOutWhenExact ==
    (HasReturned("get_pay_in") /\ HasReturned("get_pay_out")
        /\ HasReturned("get_pay_total")) =>
        /\ DictKeys(ValueOf("get_pay_total"))
              = DictKeys(ValueOf("get_pay_in")) \cup DictKeys(ValueOf("get_pay_out"))
        /\ \A c \in {"RUB", "USD"} :
              C7_NoRounding(c) =>
                 DictGet(ValueOf("get_pay_total"), c, 0)
                    = float_add(DictGet(ValueOf("get_pay_in"), c, 0),
                                DictGet(ValueOf("get_pay_out"), c, 0))

\* All three were called on a list with deposits and withdrawals in roubles
\* whose sums do not round, and a deposit alone in dollars.
C7_Witness ==
    /\ HasReturned("get_pay_in") /\ HasReturned("get_pay_out")
    /\ HasReturned("get_pay_total")
    /\ C7_NoRounding("RUB") /\ C7_NoRounding("USD")
    /\ DictHas(ValueOf("get_pay_in"), "RUB")
    /\ DictHas(ValueOf("get_pay_out"), "RUB")
    /\ DictHas(ValueOf("get_pay_in"), "USD")
    /\ ~DictHas(ValueOf("get_pay_out"), "USD")


(***************************************************************************)
(* What the claims about get_profit speak of.                              *)
(***************************************************************************)
AccountPositions == broker["tokA"].positions

HeldFigis == {AccountPositions[i].figi : i \in 1..Len(AccountPositions)}

PositionOf(figi) ==
    AccountPositions[CHOOSE i \in 1..Len(AccountPositions) :
                        AccountPositions[i].figi = figi]

FigisIn(ops) == {ops[i].figi : i \in 1..Len(ops)}

\* payment + commission of each operation of ops, a None commission as zero
Flows(ops) ==
    [i \in 1..Len(ops) |->
        float_add(ops[i].payment,
                  IF ops[i].commission = None THEN 0 ELSE ops[i].commission[1].value)]

\* The cash flow main.py accumulates for an instrument.
MainFlow(figi) ==
    FloatSum(Flows(SelectSeq(CachedOperations,
                             LAMBDA o : main_profit_filter(o) /\ o.figi = figi)), 0)

\* The cash flow common.py accumulates for an instrument in one currency.
CommonFlow(figi, currency) ==
    FloatSum(Flows(SelectSeq(CachedOperations,
                             LAMBDA o : common_profit_filter(o) /\ o.figi = figi
                                        /\ o.currency = currency)), 0)

CommonCurrencies(figi) ==
    LET traded == SelectSeq(CachedOperations,
                            LAMBDA o : common_profit_filter(o) /\ o.figi = figi)
    IN  {traded[i].currency : i \in 1..Len(traded)}

\* The currency of an instrument that common.py accumulates last: the one
\* whose first operation comes latest in the list.
CommonLastCurrency(figi) ==
    LET traded == SelectSeq(CachedOperations,
                            LAMBDA o : common_profit_filter(o) /\ o.figi = figi)
        first(c) == CHOOSE i \in 1..Len(traded) :
                        /\ traded[i].currency = c
                        /\ \A j \in 1..(i - 1) : traded[j].currency # c
    IN  CHOOSE c \in CommonCurrencies(figi) :
            \A d \in CommonCurrencies(figi) : first(d) <= first(c)

MainHeldExcluded ==
    HasReturned("main.get_profit") =>
        \A figi \in FigisIn(SelectSeq(CachedOperations, main_profit_filter)) :
            IF figi \in HeldFigis
            THEN ~DictHas(ValueOf("main.get_profit"), get_name_by_figi(figi))
            ELSE /\ DictHas(ValueOf("main.get_profit"), get_name_by_figi(figi))
                 /\ DictGet(ValueOf("main.get_profit"), get_name_by_figi(figi), None)
                       = PyFloat(MainFlow(figi))

(***************************************************************************)
(* C3 as stated.  In both revisions an instrument with accumulated         *)
(* BUY/SELL/BuyCard cash flow has no entry in the profit mapping when it   *)
(* is in the portfolio, and an entry holding the accumulated sum when it   *)
(* is not.                                                                 *)
(***************************************************************************)
C3_HeldInstrumentsExcluded ==
    /\ MainHeldExcluded
    /\ HasReturned("common.get_profit") =>
          \A figi \in FigisIn(SelectSeq(CachedOperations, common_profit_filter)) :
              IF figi \in HeldFigis
              THEN ~DictHas(ValueOf("common.get_profit"), get_name_by_figi(figi))
              ELSE /\ DictHas(ValueOf("common.get_profit"), get_name_by_figi(figi))
                   /\ DictGet(ValueOf("common.get_profit"),
                              get_name_by_figi(figi), None)
                         = PyDict(<< <<CommonLastCurrency(figi),
                                       CommonFlow(figi, CommonLastCurrency(figi))>> >>)

(***************************************************************************)
(* C3 as amended.  main.py: as stated.  common.py: an instrument that is   *)
(* not in the portfolio has an entry holding the sum accumulated in the    *)
(* last of its currencies; one that is in the portfolio has an entry       *)
(* exactly when it has cash flow in the currency of its position, holding  *)
(* that sum plus the current value of the position.                        *)
(***************************************************************************)
C3_HeldExcludedInMainValuedInCommon ==
    /\ MainHeldExcluded
    /\ HasReturned("common.get_profit") =>
          \A figi \in FigisIn(SelectSeq(CachedOperations, common_profit_filter)) :
              LET name == get_name_by_figi(figi)
                  profit == ValueOf("common.get_profit")
              IN  IF figi \notin HeldFigis
                  THEN /\ DictHas(profit, name)
                       /\ DictGet(profit, name, None)
                             = PyDict(<< <<CommonLastCurrency(figi),
                                           CommonFlow(figi, CommonLastCurrency(figi))>> >>)
                  ELSE LET currency == PositionOf(figi).average_position_price.currency
                       IN  IF currency \in CommonCurrencies(figi)
                           THEN /\ DictHas(profit, name)
                                /\ DictGet(profit, name, None)
                                      = PyDict(<< <<currency,
                                                    float_add(CommonFlow(figi, currency),
                                                              position_value(PositionOf(figi)))>> >>)
                           ELSE ~DictHas(profit, name)

\* Both revisions returned a profit mapping for a list that trades one
\* instrument that is held and one that is not.
C3_Witness ==
    /\ HasReturned("main.get_profit") /\ HasReturned("common.get_profit")
    /\ \E held \in HeldFigis, sold \in {"FIGI1", "FIGI2"} \ HeldFigis :
          /\ {held, sold} \subseteq FigisIn(SelectSeq(CachedOperations, main_profit_filter))
          /\ {held, sold} \subseteq FigisIn(SelectSeq(CachedOperations, common_profit_filter))
          /\ MainFlow(sold) # 0
          /\ DictHas(ValueOf("common.get_profit"), get_name_by_figi(held))

(***************************************************************************)
(* C4.  A BUY/SELL/BuyCard operation whose commission is None never makes  *)
(* get_profit fail, in either revision: it counts with zero commission.    *)
(***************************************************************************)
C4_NoneCommissionCountsAsZero ==
    /\ returned["main.get_profit"] # None =>
          /\ ~returned["main.get_profit"][1].raised
          /\ MainHeldExcluded
    /\ returned["common.get_profit"] # None =>
          ~returned["common.get_profit"][1].raised


(***************************************************************************)
(* C6 as stated.  The profit mapping always has the keys 'dividend' and    *)
(* 'coupon'; each is the scalar sum, in the default currency, of the       *)
(* DIVIDEND and TAXDIVIDEND (COUPON and TAXCOUPON) payments, 0.0 when no   *)
(* operation in the default currency matches.                              *)
(***************************************************************************)
ScalarEntry(profit, key, types) ==
    /\ DictHas(profit, key)
    /\ DictGet(profit, key, None).type = "float"
    /\ DictGet(profit, key, None).val
          = FloatSum(PaymentsOf(CachedOperations, types, DEFAULT_CURRENCY), 0)

PerCurrencyEntry(profit, key, types) ==
    /\ DictHas(profit, key)
    /\ DictGet(profit, key, None).type = "dict"
    /\ DictKeys(DictGet(profit, key, None).val) = CurrenciesOf(CachedOperations, types)
    /\ \A c \in CurrenciesOf(CachedOperations, types) :
          DictGet(DictGet(profit, key, None).val, c, 0)
             = FloatSum(PaymentsOf(CachedOperations, types, c), 0)

C6_DividendAndCouponScalars ==
    \A m \in {"main.get_profit", "common.get_profit"} :
        HasReturned(m) =>
            /\ ScalarEntry(ValueOf(m), "dividend", {DIVIDEND, TAXDIVIDEND})
            /\ ScalarEntry(ValueOf(m), "coupon", {COUPON, TAXCOUPON})

(***************************************************************************)
(* C6 as amended.  Every profit mapping get_profit returns has the keys    *)
(* 'dividend' and 'coupon'.  In main.py each is the scalar of the claim.   *)
(* In common.py each is a mapping from currency to the sum of the matching *)
(* payments in that currency, over all currencies, empty when no           *)
(* operation matches.                                                      *)
(***************************************************************************)
C6_DividendAndCouponEntries ==
    /\ HasReturned("main.get_profit") =>
          /\ ScalarEntry(ValueOf("main.get_profit"), "dividend",
                         {DIVIDEND, TAXDIVIDEND})
          /\ ScalarEntry(ValueOf("main.get_profit"), "coupon", {COUPON, TAXCOUPON})
    /\ HasReturned("common.get_profit") =>
          /\ PerCurrencyEntry(ValueOf("common.get_profit"), "dividend",
                              {DIVIDEND, TAXDIVIDEND})
          /\ PerCurrencyEntry(ValueOf("common.get_profit"), "coupon",
                              {COUPON, TAXCOUPON})

\* Both revisions returned a profit mapping for a list with a dividend and
\* its tax in roubles, a dividend tax in dollars, and no coupon.
C6_Witness ==
    /\ HasReturned("main.get_profit") /\ HasReturned("common.get_profit")
    /\ CurrenciesOf(CachedOperations, {DIVIDEND}) = {"RUB"}
    /\ CurrenciesOf(CachedOperations, {TAXDIVIDEND}) = {"USD"}
    /\ CurrenciesOf(CachedOperations, {COUPON, TAXCOUPON}) = {}
    /\ DictGet(ValueOf("main.get_profit"), "coupon", None) = PyFloat(0)

(***************************************************************************)
(* C9.  In both revisions an operation counts towards the sum of its       *)
(* instrument exactly when it is a BUY, SELL or BuyCard in the default     *)
(* currency, of an instrument that is not a currency, with a payment that  *)
(* is not zero; any other operation changes no sum and creates no entry.   *)
(* Read off the profit mapping for the instruments that are not held.      *)
(***************************************************************************)
C9_Counts(o) ==
    /\ o.operation_type \in {BUY, SELL, BUYCARD}
    /\ o.currency = DEFAULT_CURRENCY
    /\ o.instrument_type # CURRENCY
    /\ o.payment # 0

C9_Flow(figi) ==
    FloatSum(Flows(SelectSeq(CachedOperations,
                             LAMBDA o : C9_Counts(o) /\ o.figi = figi)), 0)

C9_CountsIffFourConditions ==
    /\ HasReturned("main.get_profit") =>
          \A figi \in {"FIGI1", "FIGI2", "USD000UTSTOM"} \ HeldFigis :
              LET name == get_name_by_figi(figi)
              IN  IF figi \in FigisIn(SelectSeq(CachedOperations, C9_Counts))
                  THEN /\ DictHas(ValueOf("main.get_profit"), name)
                       /\ DictGet(ValueOf("main.get_profit"), name, None)
                             = PyFloat(C9_Flow(figi))
                  ELSE ~DictHas(ValueOf("main.get_profit"), name)
    /\ HasReturned("common.get_profit") =>
          \A figi \in {"FIGI1", "FIGI2", "USD000UTSTOM"} \ HeldFigis :
              LET name == get_name_by_figi(figi)
              IN  IF figi \in FigisIn(SelectSeq(CachedOperations, C9_Counts))
                  THEN /\ DictHas(ValueOf("common.get_profit"), name)
                       /\ DictGet(ValueOf("common.get_profit"), name, None)
                             = PyDict(<< <<DEFAULT_CURRENCY, C9_Flow(figi)>> >>)
                  ELSE ~DictHas(ValueOf("common.get_profit"), name)

(***************************************************************************)
(* The report.                                                             *)
(***************************************************************************)
SectionTitles ==
    <<"Commissions and Taxes", "Service commissions", "Pay In", "Pay Out",
      "Pay Total", "Operations", "Balance", "Total Profit", "Detailed Profit">>

\* The lines of a report that start with a title.
LinesTitled(lines, title) ==
    {i \in 1..Len(lines) : StartsWith(lines[i], title)}

(***************************************************************************)
(* C5.  The value in the "Total Profit" section is the sum of the values   *)
(* of the profit mapping plus the service commission in the default        *)
(* currency, also when the profit mapping has no entry in that currency.   *)
(***************************************************************************)
C5_ServiceCommission ==
    DictGet(get_service_commission(CachedOperations), DEFAULT_CURRENCY, 0)

C5_TotalProfitAddsServiceCommission ==
    /\ HasReturned("main.get_statistics_str") =>
          LET lines == ValueOf("main.get_statistics_str")
              profit == main_get_profit(CachedOperations, AccountPositions).value
          IN  /\ LinesTitled(lines, "Total Profit") # {}
              /\ \A i \in LinesTitled(lines, "Total Profit") :
                    lines[i] = "Total Profit -> "
                                  \o float_str(float_add(py_sum(profit, 0),
                                                         C5_ServiceCommission))
    /\ (HasReturned("common.get_statistics_str")
          /\ DictHas(get_service_commission(CachedOperations), DEFAULT_CURRENCY)) =>
          LET lines == ValueOf("common.get_statistics_str")
              profit == common_get_profit(CachedOperations, AccountPositions).value
          IN  /\ LinesTitled(lines, "Total Profit") # {}
              /\ \A i \in LinesTitled(lines, "Total Profit") :
                    lines[i] = "Total Profit -> "
                                  \o format_dict_with_emoji(
                                         DictAdd(common_total_outer(profit, <<>>),
                                                 DEFAULT_CURRENCY, C5_ServiceCommission))

(***************************************************************************)
(* C8.  The report is nine lines, one for each section, in the fixed       *)
(* order, each the title of the section, " -> " and the value.             *)
(***************************************************************************)
C8_NineSectionsInOrder ==
    \A m \in {"main.get_statistics_str", "common.get_statistics_str"} :
        HasReturned(m) =>
            /\ Len(ValueOf(m)) = Len(SectionTitles)
            /\ \A i \in 1..Len(SectionTitles) :
                  StartsWith(ValueOf(m)[i], SectionTitles[i] \o " -> ")

(***************************************************************************)
(* C1.  When a step of the pipeline of a POST request raises, the handler  *)
(* still ends with the acknowledgement, after sending "Token is invalid!"  *)
(* to the chat of the request.                                             *)
(***************************************************************************)
PipelineRaises(r) ==
    LET account == broker[requests[r].token]
    IN  \/ ~account.valid
        \/ main_get_statistics_str(account.operations, account.positions).raised

C1_ExceptionsAnswered ==
    \A r \in Requests :
        (requests[r].method = "POST" /\ PipelineRaises(r)
            /\ requests[r].pc \in {"returned", "raised"}) =>
            /\ requests[r].response = Some("ok")
            /\ \E i \in 1..Len(sent) :
                  /\ sent[i].chat_id = requests[r].chat_id
                  /\ sent[i].text = <<"Token is invalid!">>

(***************************************************************************)
(* C10.  However the requests interleave, each POST request works on a     *)
(* calculator of its own: the calculator is bound to the token of the      *)
(* request, its cache holds the list fetched once with that token, and     *)
(* the message sent for the request goes to its chat and is the report     *)
(* computed from that list.                                                *)
(***************************************************************************)
C10_RequestsIsolated ==
    /\ \A r \in Requests :
          (requests[r].method = "POST"
              /\ requests[r].pc \in {"fetched", "computed", "returned"}) =>
              /\ calculator[r] =
                    Some([client |-> [token |-> requests[r].token],
                          _operations |-> Some(broker[requests[r].token].operations)])
              /\ api_calls[r] =
                    <<[ok |-> TRUE, value |-> broker[requests[r].token].operations]>>
    /\ \A i \in 1..Len(sent) :
          LET request == requests[sent[i].request]
              account == broker[request.token]
          IN  /\ sent[i].chat_id = request.chat_id
              /\ sent[i].text
                    = main_get_statistics_str(account.operations,
                                              account.positions).value

\* Two POST requests with different tokens were both answered, the second
\* one first, each with its own report.
C10_Witness ==
    /\ Len(sent) = 2
    /\ sent[1].request = 2 /\ sent[2].request = 1
    /\ requests[1].token # requests[2].token
    /\ sent[1].text # sent[2].text
    /\ sent[1].chat_id # sent[2].chat_id

====
